---- MODULE Spec2Model ----
(***************************************************************************)
(* Model of aura_ia: the RequestProcessor (provider registry, default      *)
(* provider, process_request, switch_default_provider) together with the   *)
(* parts of Config, InteractionLogger and the provider adapters that the   *)
(* processor calls.                                                        *)
(*                                                                         *)
(* Python values are records tagged with their type.  A request text is a  *)
(* sequence of characters, so that emptiness and trimming are computed;    *)
(* every other Python str (names, messages) is a TLA+ string.              *)
(*                                                                         *)
(* The logging sink is an external append-only recorder.  The model keeps  *)
(* the records each operation hands to InteractionLogger, grouped by the   *)
(* operation that emitted them (construction, one process_request call,    *)
(* the latest switch_default_provider call); a record carries the level it *)
(* is emitted at.                                                          *)
(***************************************************************************)
EXTENDS Integers, Sequences, FiniteSets, TLC

\* ---------------------------------------------------------------- bounds
\* Longest request text the caller passes.
MaxReqLen == 1

\* ------------------------------------------------------- Python values
PyNone == [type |-> "NoneType"]
PyStr(s) == [type |-> "str", val |-> s]
\* A str whose characters matter (the request text).
PyText(chars) == [type |-> "str", chars |-> chars]
PyInt(n) == [type |-> "int", num |-> n]
\* A value json.dumps has no encoder for (a datetime, a Decimal, a set).
PyObject(cls) == [type |-> "object", cls |-> cls]
\* A dict, as its items in insertion order.
PyDict(items) == [type |-> "dict", items |-> items]

IsStr(v) == v.type = "str"

\* Python truthiness (bool(v), `not v`, `if v:`).
Truthy(v) ==
    CASE v.type = "NoneType" -> FALSE
      [] v.type = "str" ->
            IF "chars" \in DOMAIN v THEN v.chars # <<>> ELSE v.val # ""
      [] v.type = "int" -> v.num # 0
      [] v.type = "dict" -> v.items # <<>>
      [] v.type = "list" -> v.items # <<>>
      [] v.type = "section" -> TRUE
      [] OTHER -> TRUE

\* dict.get(key) on an insertion-ordered sequence of [key, value] entries.
RECURSIVE DictGet(_, _)
DictGet(d, k) ==
    IF d = <<>> THEN PyNone
    ELSE IF Head(d).key = k THEN Head(d).value
    ELSE DictGet(Tail(d), k)

\* list(d.keys()): the keys in insertion order.
DictKeys(d) == [i \in 1..Len(d) |-> d[i].key]

KeySet(d) == {d[i].key : i \in 1..Len(d)}

\* d[k] = v: replaces the value of an existing key in place, else appends.
DictSet(d, k, v) ==
    IF k \in KeySet(d)
    THEN [i \in 1..Len(d) |-> IF d[i].key = k THEN [key |-> k, value |-> v] ELSE d[i]]
    ELSE Append(d, [key |-> k, value |-> v])

\* ------------------------------------------------------- log records
InfoRecord(msg) == [level |-> "INFO", kind |-> "info", message |-> msg]
WarningRecord(msg) == [level |-> "WARNING", kind |-> "warning", message |-> msg]

\* json.dumps raises TypeError on a value it has no encoder for.
RECURSIVE JsonSerializableItems(_)
JsonSerializable(v) ==
    CASE v.type = "object" -> FALSE
      [] v.type = "dict" -> JsonSerializableItems(v.items)
      [] OTHER -> TRUE
JsonSerializableItems(items) ==
    IF items = <<>> THEN TRUE
    ELSE /\ Head(items).value.type # "object"
         /\ JsonSerializableItems(Tail(items))

JsonTypeErrorText == "Object of type datetime is not JSON serializable"

\* InteractionLogger.log_interaction: the record it emits.
InteractionRecord(request, response, provider, metadata) ==
    [level |-> "INFO", kind |-> "Interaction", request |-> request,
     response |-> response, provider |-> provider, metadata |-> metadata]

\* InteractionLogger.log_error: the record it emits.
ErrorRecord(error_message, error_type, details) ==
    [level |-> "ERROR", kind |-> "Error", error_type |-> error_type,
     error_message |-> error_message, details |-> details]

\* ------------------------------------------------------- logging sink
\* The levels of the logging module, lowest first.
LevelOrder == <<"DEBUG", "INFO", "WARNING", "ERROR", "CRITICAL">>

LevelNo(level) == CHOOSE i \in 1..Len(LevelOrder) : LevelOrder[i] = level

\* A logger or handler set to `threshold` lets a record of `level` through.
Admits(threshold, level) == LevelNo(level) >= LevelNo(threshold)

\* config.get("log_path", ...) and config.get("log_level", ...) when the
\* configuration sets neither.
DefaultLogger == [log_path |-> "logs/interactions.log", log_level |-> "INFO"]

\* The process-wide logger named "aura_ia" as InteractionLogger.__init__
\* leaves it: its level set, its handlers cleared and replaced by a file
\* handler on log_path and a console handler, both at that level.
Reconfigured(log_path, log_level) ==
    [level |-> log_level,
     handlers |-> <<[target |-> log_path, level |-> log_level],
                    [target |-> "stderr", level |-> log_level]>>]

\* What one record handed to logger `lg` writes: one entry per handler
\* that lets it through, none when the logger's level filters it.
DeliverOne(record, lg) ==
    IF ~Admits(lg.level, record.level) THEN <<>>
    ELSE LET ok == {i \in 1..Len(lg.handlers) :
                       Admits(lg.handlers[i].level, record.level)}
             pick(i) == IF i \in ok
                        THEN <<[target |-> lg.handlers[i].target,
                                record |-> record]>>
                        ELSE <<>>
         IN pick(1) \o pick(2)

\* What a sequence of records handed to logger `lg` writes, in order.
RECURSIVE Deliveries(_, _)
Deliveries(records, lg) ==
    IF records = <<>> THEN <<>>
    ELSE DeliverOne(Head(records), lg) \o Deliveries(Tail(records), lg)

\* ------------------------------------------------------- providers
\* get_provider_name of the two adapters.
get_provider_name(p) ==
    CASE p.class = "GeminiProvider" -> "gemini"
      [] p.class = "GPTProvider" -> "gpt"
      [] OTHER -> "mock"

\* The two backend adapters; any other class is a plain AIProvider subclass
\* without a remote client.
AdapterClasses == {"GeminiProvider", "GPTProvider"}

\* ------------------------------------------------------- configuration
\* A backend section of the configuration: absent, or a mapping holding
\* api_key and model ("" stands for an unset or empty value).
Sections ==
    {PyNone} \cup [type : {"section"}, api_key : {"", "key"}, model : {"", "model"}]

\* Values of the default_provider setting.
DefaultNames == {"gemini", "gpt", "openai"}

\* The configurations a processor is constructed from, with `sdk`: whether
\* each backend's client library imports and constructs.  Construction
\* reaches the client library only with a key and a model, and reads the
\* model only with a key: the states that differ in a value never read are
\* left out.
Configs ==
    {c \in [gemini : Sections, openai : Sections,
            default_provider : DefaultNames,
            sdk : [gemini : BOOLEAN, openai : BOOLEAN]] :
        \A b \in {"gemini", "openai"} :
            /\ (c[b] # PyNone /\ c[b].api_key = "") => c[b].model = "model"
            /\ ~c.sdk[b] => (c[b] # PyNone /\ c[b].api_key # "" /\ c[b].model # "")}

\* Config.get_provider_config: the section, or ConfigException when absent.
get_provider_config(cfg, name) ==
    IF Truthy(cfg[name])
    THEN [raised |-> FALSE, value |-> cfg[name]]
    ELSE [raised |-> TRUE,
          text |-> "No configuration found for provider: " \o name]

\* A provider instance: its class, its configuration and whether it holds
\* a remote client (self._client is not None).
Instance(cls, section, client) ==
    [class |-> cls, api_key |-> section.api_key, model |-> section.model,
     client |-> client]

\* Construction that does not validate the model identifier.
ProviderConstructNoModelCheck(cls, section, sdk_ok) ==
    IF section.api_key = ""
    THEN [raised |-> TRUE, exception |-> "ValueError",
          text |-> cls \o " requires an API key", steps |-> <<"validate">>]
    ELSE IF cls \notin AdapterClasses
    THEN [raised |-> FALSE, steps |-> <<"validate">>,
          value |-> Instance(cls, section, FALSE)]
    ELSE IF ~sdk_ok
    THEN [raised |-> TRUE, exception |-> "ProviderException",
          text |-> "Failed to initialize client",
          steps |-> <<"validate", "initialize_client">>]
    ELSE [raised |-> FALSE, steps |-> <<"validate", "initialize_client">>,
          value |-> Instance(cls, section, TRUE)]

\* Construction that leaves the client to the first use.
ProviderConstructLazy(cls, section, sdk_ok) ==
    IF section.api_key = ""
    THEN [raised |-> TRUE, exception |-> "ValueError",
          text |-> cls \o " requires an API key", steps |-> <<"validate">>]
    ELSE IF section.model = ""
    THEN [raised |-> TRUE, exception |-> "ValueError",
          text |-> cls \o " requires a model name", steps |-> <<"validate">>]
    ELSE [raised |-> FALSE, steps |-> <<"validate">>,
          value |-> Instance(cls, section, FALSE)]

\* AIProvider.__init__ / _validate_config, followed in the backend adapters
\* by _initialize_client.  sdk_ok: the backend's client library imports and
\* its client constructs.  `steps` lists what ran, in order.
ProviderConstruct(cls, section, sdk_ok) ==
    IF section.api_key = ""
    THEN [raised |-> TRUE, exception |-> "ValueError",
          text |-> cls \o " requires an API key", steps |-> <<"validate">>]
    ELSE IF section.model = ""
    THEN [raised |-> TRUE, exception |-> "ValueError",
          text |-> cls \o " requires a model name", steps |-> <<"validate">>]
    ELSE IF cls \notin AdapterClasses
    THEN [raised |-> FALSE, steps |-> <<"validate">>,
          value |-> Instance(cls, section, FALSE)]
    ELSE IF ~sdk_ok
    THEN [raised |-> TRUE, exception |-> "ProviderException",
          text |-> "Failed to initialize client",
          steps |-> <<"validate", "initialize_client">>]
    ELSE [raised |-> FALSE, steps |-> <<"validate", "initialize_client">>,
          value |-> Instance(cls, section, TRUE)]

\* One try block of _initialize_providers, for the backend read from
\* section `section_name` and registered under `key`.
InitializeOne(st, cfg, section_name, key, cls, label, sdk_ok) ==
    LET got == get_provider_config(cfg, section_name) IN
    IF got.raised
    THEN [st EXCEPT !.log = Append(@, WarningRecord(
              "Failed to initialize " \o label \o " provider: " \o got.text))]
    ELSE IF got.value.api_key = "" THEN st
    ELSE LET made == ProviderConstruct(cls, got.value, sdk_ok) IN
         IF made.raised
         THEN [st EXCEPT !.log = Append(@, WarningRecord(
                   "Failed to initialize " \o label \o " provider: " \o made.text))]
         ELSE [providers |-> DictSet(st.providers, key, made.value),
               log |-> Append(st.log,
                   InfoRecord(label \o " provider initialized successfully"))]

\* Initialization that stops at the first backend that fails.
InitializeProvidersAbort(cfg, sdk) ==
    LET s0 == [providers |-> <<>>, log |-> <<>>]
        s1 == InitializeOne(s0, cfg, "gemini", "gemini", "GeminiProvider",
                            "Gemini", sdk.gemini)
    IN IF s1.providers = <<>> /\ s1.log # <<>> THEN s1
       ELSE InitializeOne(s1, cfg, "openai", "gpt", "GPTProvider", "GPT", sdk.openai)

\* RequestProcessor._initialize_providers: gemini first, then openai/gpt.
InitializeProviders(cfg, sdk) ==
    LET s0 == [providers |-> <<>>, log |-> <<>>]
        s1 == InitializeOne(s0, cfg, "gemini", "gemini", "GeminiProvider",
                            "Gemini", sdk.gemini)
    IN InitializeOne(s1, cfg, "openai", "gpt", "GPTProvider", "GPT", sdk.openai)

\* Construction whose fall-back default is the last registered provider.
ConstructLast(cfg, sdk) ==
    LET reg == InitializeProviders(cfg, sdk)
        named == DictGet(reg.providers, cfg.default_provider)
        chosen == IF named # PyNone THEN named
                  ELSE IF reg.providers # <<>>
                       THEN reg.providers[Len(reg.providers)].value
                  ELSE PyNone
        log1 == IF named = PyNone
                THEN Append(reg.log, WarningRecord(
                         "Default provider '" \o cfg.default_provider
                         \o "' not available. Using first available provider."))
                ELSE reg.log
        log2 == IF chosen = PyNone
                THEN Append(log1, ErrorRecord("No AI providers available",
                         "initialization_error",
                         [configured_providers |-> DictKeys(reg.providers)]))
                ELSE log1
    IN [providers |-> reg.providers, default_provider |-> chosen, log |-> log2]

\* Construction without the fall-back to the first registered provider.
ConstructNoFallback(cfg, sdk) ==
    LET reg == InitializeProviders(cfg, sdk)
        named == DictGet(reg.providers, cfg.default_provider)
        log1 == IF named = PyNone
                THEN Append(reg.log, WarningRecord(
                         "Default provider '" \o cfg.default_provider
                         \o "' not available. Using first available provider."))
                ELSE reg.log
        log2 == IF named = PyNone
                THEN Append(log1, ErrorRecord("No AI providers available",
                         "initialization_error",
                         [configured_providers |-> DictKeys(reg.providers)]))
                ELSE log1
    IN [providers |-> reg.providers, default_provider |-> named, log |-> log2]

\* RequestProcessor.__init__ after the registry is built: the default.
Construct(cfg, sdk) ==
    LET reg == InitializeProviders(cfg, sdk)
        named == DictGet(reg.providers, cfg.default_provider)
        log1 == IF named = PyNone
                THEN Append(reg.log, WarningRecord(
                         "Default provider '" \o cfg.default_provider
                         \o "' not available. Using first available provider."))
                ELSE reg.log
        chosen == IF named # PyNone THEN named
                  ELSE IF reg.providers # <<>> THEN reg.providers[1].value
                  ELSE PyNone
        log2 == IF chosen = PyNone
                THEN Append(log1, ErrorRecord("No AI providers available",
                         "initialization_error",
                         [configured_providers |-> DictKeys(reg.providers)]))
                ELSE log1
    IN [providers |-> reg.providers, default_provider |-> chosen, log |-> log2]

\* ------------------------------------------------------- inputs
Chars == {" ", "a"}

RequestTexts == UNION {[1..n -> Chars] : n \in 0..MaxReqLen}

\* What a caller may pass as `request`: any text, None, a number.
Requests == {PyText(s) : s \in RequestTexts} \cup {PyNone, PyInt(42)}

\* What a caller may pass as `provider_name`.
ProviderNames == {PyNone, PyStr(""), PyStr("gemini"), PyStr("gpt"), PyStr("openai")}

\* What a caller may pass as `context`.
Contexts ==
    {PyNone,
     PyDict(<<[key |-> "user", value |-> PyStr("ana")]>>),
     PyDict(<<[key |-> "when", value |-> PyObject("datetime")]>>)}

\* What a caller may pass as `conversation_history`.
Histories ==
    {PyNone,
     [type |-> "list", items |-> <<>>],
     [type |-> "list", items |-> <<[role |-> "user", content |-> "hello"]>>]}

\* What `await provider.generate_response(...)` can do.
Outcomes ==
    {[kind |-> "return", text |-> "answer"],
     [kind |-> "ProviderException", text |-> "backend failed"],
     [kind |-> "Exception", text |-> "boom"]}

\* Names a caller may pass to switch_default_provider.
SwitchNames == {"gemini", "gpt", "openai"}

\* The caller tasks: t1 is the caller of the sequential specification; the
\* concurrent specification runs both.
TaskIds == {"t1", "t2"}

MainTasks == {"t1"}

\* ------------------------------------------------------- state
VARIABLES
    config,            \* the Config the processor was constructed from
    providers,         \* self.providers: the registry, in insertion order
    default_provider,  \* self.default_provider: an instance or None
    init_log,          \* records emitted by __init__
    calls,             \* per task: the process_request call it is in
    last_switch,       \* the latest switch_default_provider call, or None
    listing,           \* the latest get_available_providers result, or None
    store,             \* Config._config: the nested configuration mapping
    config_op,         \* the latest Config.get / Config.set call, or None
    built,             \* the latest provider constructed on its own, or None
    gen,               \* the latest generate_response of that provider, or None
    loggers,           \* per task: the InteractionLogger of the processor it
                       \* calls (log_path, log_level), or None before it is built
    aura_logger        \* logging.getLogger("aura_ia"): level and handlers

vars == <<config, providers, default_provider, init_log, calls, last_switch,
          listing, store, config_op, built, gen, loggers, aura_logger>>

\* What the processor's request and switch operations never touch.
aux == <<listing, store, config_op, built, gen, loggers, aura_logger>>

IdleCall ==
    [pc |-> "idle", request |-> PyNone, context |-> PyNone, history |-> PyNone,
     provider_name |-> PyNone, provider |-> PyNone, invoked |-> <<>>,
     outcome |-> PyNone, result |-> PyNone, log |-> <<>>, written |-> <<>>]

\* A processor constructed from any configuration, no call made yet.
ProcessorInit ==
    /\ config \in Configs
    /\ LET made == Construct(config, config.sdk) IN
       /\ providers = made.providers
       /\ default_provider = made.default_provider
       /\ init_log = made.log
    /\ calls = [t \in TaskIds |-> IdleCall]
    /\ last_switch = PyNone
    /\ listing = PyNone

\* An empty configuration store, not yet read or written.
StoreInit ==
    /\ store = PyDict(<<>>)
    /\ config_op = PyNone

\* No provider constructed on its own.
AdapterInit ==
    /\ built = PyNone
    /\ gen = PyNone

\* One processor, built with the default log path and level, that every
\* task calls.
LoggerInit ==
    /\ loggers = [t \in TaskIds |-> DefaultLogger]
    /\ aura_logger = Reconfigured(DefaultLogger.log_path, DefaultLogger.log_level)

Init == ProcessorInit /\ StoreInit /\ AdapterInit /\ LoggerInit

\* ------------------------------------------------------- process_request
\* The input check with the emptiness test dropped.
ValidRequestTypeOnly(request) == IsStr(request)

\* The input check: `if not request or not isinstance(request, str): raise`.
ValidRequest(request) == Truthy(request) /\ IsStr(request)

ValidationError ==
    [exception |-> "ValidationException",
     text |-> "Request must be a non-empty string"]

\* Selection whose fall-back is the first registered provider, not the
\* current default.
select_provider_first(reg, dflt, provider_name) ==
    LET first == IF reg # <<>> THEN reg[1].value ELSE PyNone IN
    IF Truthy(provider_name)
    THEN LET provider == DictGet(reg, provider_name.val) IN
         IF provider = PyNone
         THEN [provider |-> first,
               log |-> <<WarningRecord("Requested provider '" \o provider_name.val
                            \o "' not available. Falling back to default.")>>]
         ELSE [provider |-> provider, log |-> <<>>]
    ELSE [provider |-> first, log |-> <<>>]

\* RequestProcessor._select_provider: the provider and the records logged.
select_provider(reg, dflt, provider_name) ==
    IF Truthy(provider_name)
    THEN LET provider == DictGet(reg, provider_name.val) IN
         IF provider = PyNone
         THEN [provider |-> dflt,
               log |-> <<WarningRecord("Requested provider '" \o provider_name.val
                            \o "' not available. Falling back to default.")>>]
         ELSE [provider |-> provider, log |-> <<>>]
    ELSE [provider |-> dflt, log |-> <<>>]

NoProviderText == "No AI provider available"

\* The no-provider case reported through the generic error text.
NoProviderEnvelopeGeneric(request) ==
    [success |-> FALSE, error |-> "Unexpected error: " \o NoProviderText,
     request |-> request]

\* The envelope returned when no provider resolves.
NoProviderEnvelope(request) ==
    [success |-> FALSE, error |-> NoProviderText, request |-> request]

\* The envelope returned after generate_response returned.
SuccessEnvelope(response, provider, request) ==
    [success |-> TRUE, response |-> response,
     provider |-> get_provider_name(provider), request |-> request]

\* The provider-error envelope without the provider's name.
ProviderErrorEnvelopeNoName(text, provider, request) ==
    [success |-> FALSE, error |-> text, request |-> request]

\* The envelope returned from `except ProviderException`.
ProviderErrorEnvelope(text, provider, request) ==
    [success |-> FALSE, error |-> text,
     provider |-> get_provider_name(provider), request |-> request]

\* The unexpected-error envelope carrying the bare exception text.
UnexpectedErrorEnvelopeBare(text, provider, request) ==
    [success |-> FALSE, error |-> text,
     provider |-> IF provider # PyNone THEN get_provider_name(provider)
                  ELSE "unknown",
     request |-> request]

\* The envelope returned from `except Exception`.
UnexpectedErrorEnvelope(text, provider, request) ==
    [success |-> FALSE, error |-> "Unexpected error: " \o text,
     provider |-> IF provider # PyNone THEN get_provider_name(provider)
                  ELSE "unknown",
     request |-> request]

ErrorDetails(provider, request) ==
    [provider |-> get_provider_name(provider), request |-> request]

\* A handler that awaits generate_response again instead of returning.
OnProviderExceptionRetry(text, provider, request) ==
    [pc |-> "awaiting", log |-> <<>>, result |-> PyNone]

\* A handler that returns the envelope without logging the error.
OnProviderExceptionUnlogged(text, provider, request) ==
    [pc |-> "returned", log |-> <<>>,
     result |-> ProviderErrorEnvelope(text, provider, request)]

\* `except ProviderException as e`: one Error record, then the envelope.
OnProviderException(text, provider, request) ==
    [pc |-> "returned",
     log |-> <<ErrorRecord(text, "provider_error", ErrorDetails(provider, request))>>,
     result |-> ProviderErrorEnvelope(text, provider, request)]

\* The generic handler missing: the exception leaves process_request.
OnExceptionPropagates(text, provider, request) ==
    [pc |-> "raised", log |-> <<>>,
     result |-> [exception |-> "Exception", text |-> text]]

\* `except Exception as e`: one Error record, then the envelope.
OnException(text, provider, request) ==
    [pc |-> "returned",
     log |-> <<ErrorRecord(text, "unexpected_error", ErrorDetails(provider, request))>>,
     result |-> UnexpectedErrorEnvelope(text, provider, request)]

\* After generate_response returned `response`: log_interaction, which
\* json.dumps the record (TypeError on a value without encoder, raised
\* inside the try block), then the success envelope.
OnResponse(response, provider, request, context, history) ==
    LET metadata == [context |-> context, has_history |-> Truthy(history)] IN
    IF JsonSerializable(context)
    THEN [pc |-> "returned",
          log |-> <<InteractionRecord(request, response,
                        get_provider_name(provider), metadata)>>,
          result |-> SuccessEnvelope(response, provider, request)]
    ELSE OnException(JsonTypeErrorText, provider, request)

\* The handlers in the wrong order: `except Exception` first, which also
\* catches a ProviderException.
HandleOutcomeGenericFirst(outcome, provider, request, context, history) ==
    CASE outcome.kind = "return" ->
             OnResponse(outcome.text, provider, request, context, history)
      [] OTHER -> OnException(outcome.text, provider, request)

\* The rest of process_request once the awaited generate_response ended.
HandleOutcome(outcome, provider, request, context, history) ==
    CASE outcome.kind = "return" ->
             OnResponse(outcome.text, provider, request, context, history)
      [] outcome.kind = "ProviderException" ->
             OnProviderException(outcome.text, provider, request)
      [] OTHER -> OnException(outcome.text, provider, request)

\* process_request up to its await: validation, selection, the call of
\* generate_response on the selected provider.
StartCall(request, context, history, provider_name, reg, dflt) ==
    LET base == [IdleCall EXCEPT !.request = request, !.context = context,
                                 !.history = history,
                                 !.provider_name = provider_name]
    IN
    IF ~ValidRequest(request)
    THEN [base EXCEPT !.pc = "raised", !.result = ValidationError]
    ELSE LET sel == select_provider(reg, dflt, provider_name) IN
         IF sel.provider = PyNone
         THEN [base EXCEPT !.pc = "returned",
                           !.log = sel.log \o
                               <<ErrorRecord(NoProviderText, "provider_error", <<>>)>>,
                           !.result = NoProviderEnvelope(request)]
         ELSE [base EXCEPT !.pc = "awaiting",
                           !.provider = sel.provider,
                           !.invoked = <<sel.provider>>,
                           !.log = sel.log \o
                               <<InfoRecord("Processing request with "
                                   \o get_provider_name(sel.provider)
                                   \o " provider")>>]

\* A caller calls process_request; the call runs to its first suspension
\* point (or to its end when it never reaches generate_response).
ProcessRequest(t, request, context, history, provider_name) ==
    /\ calls[t].pc = "idle"
    /\ LET c == StartCall(request, context, history, provider_name,
                          providers, default_provider)
       IN calls' = [calls EXCEPT ![t] =
              [c EXCEPT !.written = Deliveries(c.log, aura_logger)]]
    /\ UNCHANGED <<config, providers, default_provider, init_log, last_switch>>
    /\ UNCHANGED aux

\* A completion that reports the processor's default of the moment, not the
\* provider the call selected.
GenerateResponseEndsCurrentDefault(t, outcome) ==
    /\ calls[t].pc = "awaiting"
    /\ LET c == calls[t]
           p == IF default_provider # PyNone THEN default_provider ELSE c.provider
           h == HandleOutcome(outcome, p, c.request, c.context, c.history)
       IN calls' = [calls EXCEPT ![t] =
              [c EXCEPT !.pc = h.pc, !.outcome = outcome,
                        !.log = c.log \o h.log, !.result = h.result,
                        !.written = c.written \o Deliveries(h.log, aura_logger)]]
    /\ UNCHANGED <<config, providers, default_provider, init_log, last_switch>>
    /\ UNCHANGED aux

\* The awaited generate_response ends and process_request runs to its end.
GenerateResponseEnds(t, outcome) ==
    /\ calls[t].pc = "awaiting"
    /\ LET c == calls[t]
           h == HandleOutcome(outcome, c.provider, c.request, c.context, c.history)
       IN calls' = [calls EXCEPT ![t] =
              [c EXCEPT !.pc = h.pc, !.outcome = outcome,
                        !.log = c.log \o h.log, !.result = h.result,
                        !.written = c.written \o Deliveries(h.log, aura_logger)]]
    /\ UNCHANGED <<config, providers, default_provider, init_log, last_switch>>
    /\ UNCHANGED aux

\* The call is over: the caller has the envelope, or the exception.
CallEnds(t) ==
    /\ calls[t].pc \in {"returned", "raised"}
    /\ calls' = [calls EXCEPT ![t] = IdleCall]
    /\ UNCHANGED <<config, providers, default_provider, init_log, last_switch>>
    /\ UNCHANGED aux

\* ------------------------------------------------------- switching
\* The switch that assigns the looked-up entry before testing it.
switch_default_provider_unchecked(reg, dflt, provider_name) ==
    LET provider == DictGet(reg, provider_name) IN
    IF provider # PyNone
    THEN [default_provider |-> provider, returned |-> TRUE,
          log |-> <<InfoRecord("Default provider switched to: " \o provider_name)>>]
    ELSE [default_provider |-> provider, returned |-> FALSE,
          log |-> <<WarningRecord("Cannot switch to unavailable provider: "
                        \o provider_name)>>]

\* A switch that reports success but keeps a default that is already set.
switch_default_provider_sticky(reg, dflt, provider_name) ==
    LET provider == DictGet(reg, provider_name) IN
    IF provider # PyNone
    THEN [default_provider |-> IF dflt # PyNone THEN dflt ELSE provider,
          returned |-> TRUE,
          log |-> <<InfoRecord("Default provider switched to: " \o provider_name)>>]
    ELSE [default_provider |-> dflt, returned |-> FALSE,
          log |-> <<WarningRecord("Cannot switch to unavailable provider: "
                        \o provider_name)>>]

\* RequestProcessor.switch_default_provider: new default, result, record.
switch_default_provider(reg, dflt, provider_name) ==
    LET provider == DictGet(reg, provider_name) IN
    IF provider # PyNone
    THEN [default_provider |-> provider, returned |-> TRUE,
          log |-> <<InfoRecord("Default provider switched to: " \o provider_name)>>]
    ELSE [default_provider |-> dflt, returned |-> FALSE,
          log |-> <<WarningRecord("Cannot switch to unavailable provider: "
                        \o provider_name)>>]

\* History kept with the latest switch: the name given to the most recent
\* switch_default_provider call that returned True, None while there is none.
LastSuccessful(provider_name, returned) ==
    IF returned THEN PyStr(provider_name)
    ELSE IF last_switch = PyNone THEN PyNone
    ELSE last_switch.last_ok

\* A switch that registers the unknown name it was given.
SwitchDefaultProviderRegisters(provider_name) ==
    LET r == switch_default_provider(providers, default_provider, provider_name) IN
    /\ default_provider' = r.default_provider
    /\ last_switch' = [type |-> "switch", provider_name |-> provider_name,
                       before |-> default_provider, returned |-> r.returned,
                       log |-> r.log,
                       last_ok |-> LastSuccessful(provider_name, r.returned)]
    /\ providers' = IF r.returned THEN providers
                    ELSE Append(providers, [key |-> provider_name,
                                            value |-> default_provider])
    /\ UNCHANGED <<config, init_log, calls>>
    /\ UNCHANGED aux

SwitchDefaultProvider(provider_name) ==
    LET r == switch_default_provider(providers, default_provider, provider_name) IN
    /\ default_provider' = r.default_provider
    /\ last_switch' = [type |-> "switch", provider_name |-> provider_name,
                       before |-> default_provider, returned |-> r.returned,
                       log |-> r.log,
                       last_ok |-> LastSuccessful(provider_name, r.returned)]
    /\ UNCHANGED <<config, providers, init_log, calls>>
    /\ UNCHANGED aux

\* RequestProcessor.get_available_providers.
get_available_providers(reg) == DictKeys(reg)

Next ==
    \/ \E t \in MainTasks, request \in Requests, context \in Contexts,
          history \in Histories, provider_name \in ProviderNames :
          ProcessRequest(t, request, context, history, provider_name)
    \/ \E t \in MainTasks, outcome \in Outcomes : GenerateResponseEnds(t, outcome)
    \/ \E t \in MainTasks : CallEnds(t)
    \/ \E provider_name \in SwitchNames : SwitchDefaultProvider(provider_name)

Spec == Init /\ [][Next]_vars

\* ------------------------------------------------------- concurrent callers
\* A caller calls get_available_providers.
GetAvailableProviders ==
    /\ listing' = [type |-> "list", names |-> get_available_providers(providers)]
    /\ UNCHANGED <<config, providers, default_provider, init_log, calls,
                   last_switch, store, config_op, built, gen>>
    /\ UNCHANGED <<loggers, aura_logger>>

\* What the concurrent callers pass: a valid and an invalid request, no
\* context and no history, and a provider name that is absent, registered
\* or unknown.
ConcRequests == {PyText(<<"a">>), PyNone}
ConcProviderNames == {PyNone, PyStr("gpt"), PyStr("openai")}

\* A processor whose backends are each configured completely or not at
\* all, with their client libraries present.
InitConc ==
    /\ ProcessorInit
    /\ \A b \in {"gemini", "openai"} :
          /\ config[b] # PyNone => (config[b].api_key # "" /\ config[b].model # "")
          /\ config.sdk[b]
    /\ StoreInit
    /\ AdapterInit
    /\ LoggerInit

NextConc ==
    \/ \E t \in TaskIds, request \in ConcRequests,
          provider_name \in ConcProviderNames :
          ProcessRequest(t, request, PyNone, PyNone, provider_name)
    \/ \E t \in TaskIds, outcome \in Outcomes : GenerateResponseEnds(t, outcome)
    \/ \E t \in TaskIds : CallEnds(t)
    \/ \E provider_name \in SwitchNames : SwitchDefaultProvider(provider_name)
    \/ GetAvailableProviders

\* Two tasks calling one processor: their process_request calls interleave
\* at the await, with switches and listings in between.
SpecConc == InitConc /\ [][NextConc]_vars

\* ------------------------------------------------------- Config store
\* Deepest dot-separated key the caller uses.
MaxKeyDepth == 2

Segments == {"a", "b"}

\* key.split('.'): the segments of a key.
KeyPaths == UNION {[1..n -> Segments] : n \in 1..MaxKeyDepth}

\* Values a caller stores, and defaults a caller passes to get.
ConfigValues == {PyInt(42), PyStr("v"), PyNone}
ConfigDefaults == {PyNone, PyStr("D")}

\* Config.get: walks the segments through nested mappings; the default
\* when a lookup gives None or the walk meets a value that is no mapping.
RECURSIVE config_get(_, _, _)
config_get(value, keys, default) ==
    IF keys = <<>> THEN value
    ELSE IF value.type = "dict"
    THEN LET v == DictGet(value.items, Head(keys)) IN
         IF v = PyNone THEN default ELSE config_get(v, Tail(keys), default)
    ELSE default

\* Config.set: walks all segments but the last, creating a mapping for an
\* absent segment, and assigns the last.  `k not in config`, `config[k]` and
\* `config[k] = ...` raise TypeError on a value that is no mapping.
RECURSIVE config_set(_, _, _)
config_set(cfg, keys, value) ==
    IF cfg.type # "dict"
    THEN [raised |-> TRUE, exception |-> "TypeError"]
    ELSE IF Len(keys) = 1
    THEN [raised |-> FALSE, value |-> PyDict(DictSet(cfg.items, keys[1], value))]
    ELSE LET child == IF Head(keys) \in KeySet(cfg.items)
                      THEN DictGet(cfg.items, Head(keys))
                      ELSE PyDict(<<>>)
             r == config_set(child, Tail(keys), value)
         IN IF r.raised THEN r
            ELSE [raised |-> FALSE,
                  value |-> PyDict(DictSet(cfg.items, Head(keys), r.value))]

\* A caller calls config.set(key, value).
ConfigSet(keys, value) ==
    LET r == config_set(store, keys, value) IN
    /\ store' = IF r.raised THEN store ELSE r.value
    /\ config_op' = [op |-> "set", keys |-> keys, value |-> value,
                     raised |-> r.raised]
    /\ UNCHANGED <<config, providers, default_provider, init_log, calls,
                   last_switch, listing, built, gen>>
    /\ UNCHANGED <<loggers, aura_logger>>

\* A caller calls config.get(key, default).
ConfigGet(keys, default) ==
    /\ config_op' = [op |-> "get", keys |-> keys, default |-> default,
                     result |-> config_get(store, keys, default)]
    /\ UNCHANGED <<config, providers, default_provider, init_log, calls,
                   last_switch, listing, store, built, gen>>
    /\ UNCHANGED <<loggers, aura_logger>>

\* A configuration with no backend section.
NoBackends ==
    [gemini |-> PyNone, openai |-> PyNone, default_provider |-> "gemini",
     sdk |-> [gemini |-> TRUE, openai |-> TRUE]]

InitConfig ==
    /\ ProcessorInit
    /\ config = NoBackends
    /\ StoreInit
    /\ AdapterInit
    /\ LoggerInit

NextConfig ==
    \/ \E keys \in KeyPaths, value \in ConfigValues : ConfigSet(keys, value)
    \/ \E keys \in KeyPaths, default \in ConfigDefaults : ConfigGet(keys, default)

\* The configuration store alone: any sequence of set and get calls.
SpecConfig == InitConfig /\ [][NextConfig]_vars

\* ------------------------------------------------------- backend adapters
\* Longest conversation history a caller passes to an adapter.
MaxHistory == 2

\* Classes a caller constructs on its own: the two adapters and a plain
\* AIProvider subclass.
ProviderClasses == AdapterClasses \cup {"MockProvider"}

\* Credentials and model identifiers of an AIProviderConfig.
ApiKeys == {"", "key"}
ModelNames == {"", "m"}

\* Prompts a caller passes to generate_response.
Prompts == {"hi", "balance?"}

\* Contexts a caller passes to generate_response: none, an empty mapping,
\* a mapping of two entries, and a value that is no mapping.
AdapterContexts ==
    {PyNone,
     PyDict(<<>>),
     PyDict(<<[key |-> "user", value |-> PyStr("ana")],
              [key |-> "plan", value |-> PyNone]>>),
     PyStr("notes")}

\* History entries: with both fields, and with the role left out.
Messages ==
    {[role |-> "user", content |-> "hello"],
     [role |-> "assistant", content |-> "welcome"],
     [content |-> "untagged"]}

\* Histories a caller passes to generate_response.
AdapterHistories ==
    {PyNone} \cup
    {[type |-> "list", items |-> h] :
        h \in UNION {[1..n -> Messages] : n \in 0..MaxHistory}}

\* What the backend call does: returns text, or raises with a reason.
BackendOutcomes ==
    {[kind |-> "return", text |-> "answer"],
     [kind |-> "raise", text |-> "quota exceeded"]}

\* f"{v}" of a context value.
Format(v) == IF v.type = "str" THEN v.val ELSE "None"

\* [f"{k}: {v}" for k, v in context.items()]
ContextLines(context) ==
    [i \in 1..Len(context.items) |->
        context.items[i].key \o ": " \o Format(context.items[i].value)]

\* msg.get('role', 'user') and msg.get('content', '')
MsgRole(msg) == IF "role" \in DOMAIN msg THEN msg.role ELSE "user"
MsgContent(msg) == IF "content" \in DOMAIN msg THEN msg.content ELSE ""

\* [f"{role}: {content}" for msg in conversation_history]
HistoryLines(items) ==
    [i \in 1..Len(items) |-> MsgRole(items[i]) \o ": " \o MsgContent(items[i])]

\* `context.items()` on a truthy value that is no mapping: AttributeError.
BadContext(context) == Truthy(context) /\ context.type # "dict"

AttributeErrorText == "'str' object has no attribute 'items'"

\* The single-turn text with the history block placed first.
build_prompt_history_first(prompt, context, history) ==
    IF BadContext(context)
    THEN [raised |-> TRUE, text |-> AttributeErrorText]
    ELSE [raised |-> FALSE,
          value |->
            (IF Truthy(history)
             THEN <<"Previous conversation:">> \o HistoryLines(history.items)
                  \o <<"">>
             ELSE <<>>)
            \o (IF Truthy(context)
                THEN <<"Context:">> \o ContextLines(context) \o <<"">>
                ELSE <<>>)
            \o <<"User: " \o prompt>>]

\* GeminiProvider._build_prompt: the text, as its lines.
build_prompt(prompt, context, history) ==
    IF BadContext(context)
    THEN [raised |-> TRUE, text |-> AttributeErrorText]
    ELSE [raised |-> FALSE,
          value |->
            (IF Truthy(context)
             THEN <<"Context:">> \o ContextLines(context) \o <<"">>
             ELSE <<>>)
            \o (IF Truthy(history)
                THEN <<"Previous conversation:">> \o HistoryLines(history.items)
                     \o <<"">>
                ELSE <<>>)
            \o <<"User: " \o prompt>>]

SystemPrompt == "You are Aura, an intelligent financial assistant."

\* GPTProvider._build_messages: the message list; a content is its lines.
build_messages(prompt, context, history) ==
    IF BadContext(context)
    THEN [raised |-> TRUE, text |-> AttributeErrorText]
    ELSE [raised |-> FALSE,
          value |->
            <<[role |-> "system",
               content |-> <<SystemPrompt>>
                   \o (IF Truthy(context)
                       THEN <<"", "Context:">> \o ContextLines(context)
                       ELSE <<>>)]>>
            \o (IF Truthy(history)
                THEN [i \in 1..Len(history.items) |->
                        [role |-> MsgRole(history.items[i]),
                         content |-> <<MsgContent(history.items[i])>>]]
                ELSE <<>>)
            \o <<[role |-> "user", content |-> <<prompt>>]>>]

\* The name each adapter gives its backend in its messages.
ClientName(p) == IF p.class = "GeminiProvider" THEN "Gemini" ELSE "OpenAI"
FailurePrefix(p) ==
    IF p.class = "GeminiProvider" THEN "Gemini generation failed: "
    ELSE "GPT generation failed: "

Assemble(p, prompt, context, history) ==
    IF p.class = "GeminiProvider" THEN build_prompt(prompt, context, history)
    ELSE build_messages(prompt, context, history)

\* An adapter that lets the backend's exception through as it is.
generate_response_unwrapped(p, prompt, context, history, backend) ==
    IF ~p.client
    THEN [kind |-> "ProviderException",
          text |-> ClientName(p) \o " client not initialized",
          assembled |-> FALSE, sent |-> <<>>, called |-> FALSE]
    ELSE LET a == Assemble(p, prompt, context, history) IN
         IF a.raised
         THEN [kind |-> "ProviderException", text |-> FailurePrefix(p) \o a.text,
               assembled |-> FALSE, sent |-> <<>>, called |-> FALSE]
         ELSE IF backend.kind = "raise"
         THEN [kind |-> "Exception", text |-> backend.text,
               assembled |-> TRUE, sent |-> a.value, called |-> TRUE]
         ELSE [kind |-> "return", text |-> backend.text,
               assembled |-> TRUE, sent |-> a.value, called |-> TRUE]

\* GeminiProvider.generate_response / GPTProvider.generate_response: the
\* client check, then assembly and the one backend call inside one try
\* whose handler wraps every Exception.
generate_response(p, prompt, context, history, backend) ==
    IF ~p.client
    THEN [kind |-> "ProviderException",
          text |-> ClientName(p) \o " client not initialized",
          assembled |-> FALSE, sent |-> <<>>, called |-> FALSE]
    ELSE LET a == Assemble(p, prompt, context, history) IN
         IF a.raised
         THEN [kind |-> "ProviderException", text |-> FailurePrefix(p) \o a.text,
               assembled |-> FALSE, sent |-> <<>>, called |-> FALSE]
         ELSE IF backend.kind = "raise"
         THEN [kind |-> "ProviderException",
               text |-> FailurePrefix(p) \o backend.text,
               assembled |-> TRUE, sent |-> a.value, called |-> TRUE]
         ELSE [kind |-> "return", text |-> backend.text,
               assembled |-> TRUE, sent |-> a.value, called |-> TRUE]

\* A caller constructs a provider from an AIProviderConfig.
ConstructProvider(cls, api_key, model, sdk_ok) ==
    /\ built' = [class |-> cls, api_key |-> api_key, model |-> model,
                 sdk_ok |-> sdk_ok,
                 result |-> ProviderConstruct(cls,
                                [api_key |-> api_key, model |-> model], sdk_ok)]
    /\ gen' = PyNone
    /\ UNCHANGED <<config, providers, default_provider, init_log, calls,
                   last_switch, listing, store, config_op>>
    /\ UNCHANGED <<loggers, aura_logger>>

\* A caller awaits generate_response of the adapter it constructed.
AdapterGenerateResponse(prompt, context, history, backend) ==
    /\ built # PyNone
    /\ ~built.result.raised
    /\ built.class \in AdapterClasses
    /\ gen' = [class |-> built.class, prompt |-> prompt, context |-> context,
               history |-> history, backend |-> backend,
               client_before |-> built.result.value.client,
               outcome |-> generate_response(built.result.value, prompt,
                                             context, history, backend)]
    /\ UNCHANGED <<config, providers, default_provider, init_log, calls,
                   last_switch, listing, store, config_op, built>>
    /\ UNCHANGED <<loggers, aura_logger>>

\* The processor beside them: constructed from a configuration whose
\* openai section is complete and whose gemini section is anything.
InitProvider ==
    /\ ProcessorInit
    /\ config.default_provider = "gemini"
    /\ config.openai # PyNone
    /\ config.openai.api_key # ""
    /\ config.openai.model # ""
    /\ config.sdk.openai
    /\ StoreInit
    /\ AdapterInit
    /\ LoggerInit

NextProvider ==
    \/ \E cls \in ProviderClasses, api_key \in ApiKeys, model \in ModelNames,
          sdk_ok \in BOOLEAN :
          ConstructProvider(cls, api_key, model, sdk_ok)
    \/ \E prompt \in Prompts, context \in AdapterContexts,
          history \in AdapterHistories, backend \in BackendOutcomes :
          AdapterGenerateResponse(prompt, context, history, backend)

\* Providers on their own: any sequence of constructions and uses.
SpecProvider == InitProvider /\ [][NextProvider]_vars

\* ------------------------------------------------------- several processors
\* Log levels a processor is configured with.
LogLevels == {"INFO", "ERROR"}

\* The log path of the processor each task builds and calls: its own.
LogPathOf(t) == IF t = "t1" THEN "logs/a.log" ELSE "logs/b.log"

\* A configuration with both backends complete.
BothBackends ==
    [gemini |-> [type |-> "section", api_key |-> "key", model |-> "model"],
     openai |-> [type |-> "section", api_key |-> "key", model |-> "model"],
     default_provider |-> "gemini",
     sdk |-> [gemini |-> TRUE, openai |-> TRUE]]

\* What the callers of these processors pass.
LoggedContexts ==
    {PyNone, PyDict(<<[key |-> "when", value |-> PyObject("datetime")]>>)}
LoggedProviderNames == {PyNone, PyStr("openai")}

\* Task t builds its processor: RequestProcessor.__init__ creates an
\* InteractionLogger, which reconfigures the process-wide logger.  Every
\* processor here is built from the same backend configuration, so the
\* registry, the default and the construction records are those already
\* held.
ConstructProcessor(t, log_level) ==
    /\ calls[t].pc = "idle"
    /\ loggers' = [loggers EXCEPT ![t] =
           [log_path |-> LogPathOf(t), log_level |-> log_level]]
    /\ aura_logger' = Reconfigured(LogPathOf(t), log_level)
    /\ UNCHANGED <<config, providers, default_provider, init_log, calls,
                   last_switch, listing, store, config_op, built, gen>>

\* Task t calls process_request of the processor it built.
CallOwnProcessor(t, context, provider_name) ==
    /\ loggers[t] # PyNone
    /\ ProcessRequest(t, PyText(<<"a">>), context, PyNone, provider_name)

\* The first processor is built; the second task has built none yet.
InitLogger ==
    /\ ProcessorInit
    /\ config \in {BothBackends, NoBackends}
    /\ StoreInit
    /\ AdapterInit
    /\ \E log_level \in LogLevels :
          /\ loggers = [t \in TaskIds |->
                IF t = "t1"
                THEN [log_path |-> LogPathOf(t), log_level |-> log_level]
                ELSE PyNone]
          /\ aura_logger = Reconfigured(LogPathOf("t1"), log_level)

NextLogger ==
    \/ \E t \in TaskIds, log_level \in LogLevels : ConstructProcessor(t, log_level)
    \/ \E t \in TaskIds, context \in LoggedContexts,
          provider_name \in LoggedProviderNames :
          CallOwnProcessor(t, context, provider_name)
    \/ \E t \in TaskIds, outcome \in Outcomes : GenerateResponseEnds(t, outcome)
    \/ \E t \in TaskIds : CallEnds(t)

\* Processors with their own log paths built in one process, each called
\* by its own task.
SpecLogger == InitLogger /\ [][NextLogger]_vars

\* ======================================================== properties
\* str.strip() on a sequence of characters.
RECURSIVE LStrip(_)
LStrip(s) == IF s # <<>> /\ Head(s) = " " THEN LStrip(Tail(s)) ELSE s

RECURSIVE RStrip(_)
RStrip(s) ==
    IF s # <<>> /\ s[Len(s)] = " " THEN RStrip(SubSeq(s, 1, Len(s) - 1)) ELSE s

Strip(s) == RStrip(LStrip(s))

\* The request is a string with a character other than white space.
NonBlankText(r) == IsStr(r) /\ Strip(r.chars) # <<>>

\* The request is a string of white space only.
WhitespaceOnly(r) == IsStr(r) /\ r.chars # <<>> /\ Strip(r.chars) = <<>>

\* The request is the empty string or no string.
EmptyOrNonString(r) == ~IsStr(r) \/ r.chars = <<>>

Started(c) == c.pc # "idle"

Records(c, kind) == {i \in 1..Len(c.log) : c.log[i].kind = kind}

\* C1: a call whose request is a non-empty, non-whitespace string never
\* ends by raising: whatever the registry, the provider_name and the
\* outcome of generate_response, it ends by returning an envelope whose
\* 'success' field is a boolean.
Thm_C1 ==
    \A t \in TaskIds :
        LET c == calls[t] IN
        (Started(c) /\ NonBlankText(c.request)) =>
            /\ c.pc \in {"awaiting", "returned"}
            /\ c.pc = "returned" =>
                   /\ "success" \in DOMAIN c.result
                   /\ c.result.success \in BOOLEAN

\* A call with a non-blank request returned after generate_response raised
\* an exception that is no ProviderException.
Wit_C1 ==
    \E t \in TaskIds :
        /\ calls[t].pc = "returned"
        /\ NonBlankText(calls[t].request)
        /\ calls[t].outcome # PyNone
        /\ calls[t].outcome.kind = "Exception"

\* C2: a call whose request is the empty string or no string raises
\* ValidationException before provider selection: no provider is selected
\* or invoked, nothing is logged, no envelope is returned, and the step
\* leaves the registry and the default provider as they were.
Thm_C2 ==
    /\ [](\A t \in TaskIds :
            LET c == calls[t] IN
            (Started(c) /\ EmptyOrNonString(c.request)) =>
                /\ c.pc = "raised"
                /\ c.result = ValidationError
                /\ c.provider = PyNone
                /\ c.invoked = <<>>
                /\ c.log = <<>>)
    /\ [][\A t \in TaskIds :
            (calls[t].pc = "idle" /\ calls'[t].pc = "raised") =>
                /\ providers' = providers
                /\ default_provider' = default_provider]_vars

\* A call with request None has raised, on a processor that has providers.
Wit_C2 ==
    \E t \in TaskIds :
        /\ calls[t].pc = "raised"
        /\ calls[t].request = PyNone
        /\ providers # <<>>

\* C3 (as claimed): a call whose request is a whitespace-only string raises
\* ValidationException and invokes no provider.
CE_C3 ==
    \A t \in TaskIds :
        LET c == calls[t] IN
        (Started(c) /\ WhitespaceOnly(c.request)) =>
            /\ c.pc = "raised"
            /\ c.result = ValidationError
            /\ c.invoked = <<>>

\* The step in which task t's call passes validation and selects.
Selects(t) == calls[t].pc = "idle" /\ calls'[t].pc \in {"awaiting", "returned"}

\* The provider a call invokes when it selects `p`: none when p is None.
Invocations(p) == IF p = PyNone THEN <<>> ELSE <<p>>

\* C4 (as claimed): a provider_name that is given and is a registry key
\* selects that entry and the envelope names it; one that is given and is
\* no key of a non-empty registry logs a warning and selects the current
\* default; one that is not given selects the current default.
CE_C4 ==
    [][\A t \in TaskIds :
        Selects(t) =>
            LET c == calls'[t]
                n == c.provider_name
            IN
            /\ (n # PyNone /\ n.val \in KeySet(providers)) =>
                   /\ c.provider = DictGet(providers, n.val)
                   /\ c.invoked = <<c.provider>>
            /\ (n # PyNone /\ n.val \notin KeySet(providers) /\ providers # <<>>) =>
                   /\ Records(c, "warning") # {}
                   /\ c.provider = default_provider
                   /\ c.invoked = <<default_provider>>
            /\ n = PyNone =>
                   /\ c.provider = default_provider
                   /\ c.invoked = Invocations(default_provider)]_vars

\* C4 (amended): a non-empty provider_name that is a registry key selects
\* and invokes that entry, without a warning, and the envelope's 'provider'
\* equals provider_name; a non-empty provider_name that is no registry key
\* logs one warning and selects the current default; a provider_name that
\* is not given or is the empty string selects the current default without
\* a warning.  The envelope's 'provider' is the name of the provider
\* selected at that step.
Thm_C4 ==
    /\ [][\A t \in TaskIds :
            Selects(t) =>
                LET c == calls'[t]
                    n == c.provider_name
                IN
                /\ (Truthy(n) /\ n.val \in KeySet(providers)) =>
                       /\ c.provider = DictGet(providers, n.val)
                       /\ c.invoked = <<c.provider>>
                       /\ Records(c, "warning") = {}
                /\ (Truthy(n) /\ n.val \notin KeySet(providers)) =>
                       /\ Cardinality(Records(c, "warning")) = 1
                       /\ c.provider = default_provider
                       /\ c.invoked = Invocations(default_provider)
                /\ ~Truthy(n) =>
                       /\ Records(c, "warning") = {}
                       /\ c.provider = default_provider
                       /\ c.invoked = Invocations(default_provider)]_vars
    /\ [](\A t \in TaskIds :
            LET c == calls[t] IN
            (c.pc = "returned" /\ c.provider # PyNone) =>
                /\ c.result.provider = get_provider_name(c.provider)
                /\ (Truthy(c.provider_name)
                    /\ c.provider_name.val \in KeySet(providers)) =>
                       c.result.provider = c.provider_name.val)

\* A call named a provider that is no registry key and returned after
\* invoking the default, which is not the first registered provider.
Wit_C4 ==
    \E t \in TaskIds :
        /\ calls[t].pc = "returned"
        /\ Truthy(calls[t].provider_name)
        /\ calls[t].provider_name.val \notin KeySet(providers)
        /\ calls[t].invoked = <<default_provider>>
        /\ default_provider # providers[1].value

\* C5: on a processor whose registry is empty, every call that passes
\* validation returns the failure envelope with error "No AI provider
\* available": it does not raise and invokes no provider, whatever the
\* provider_name and whatever switches were tried before.
Thm_C5 ==
    \A t \in TaskIds :
        LET c == calls[t] IN
        (providers = <<>> /\ Started(c) /\ NonBlankText(c.request)) =>
            /\ c.pc = "returned"
            /\ c.result.success = FALSE
            /\ c.result.error = "No AI provider available"
            /\ c.invoked = <<>>

\* With an empty registry and after a switch attempt, a call naming a
\* provider has returned.
Wit_C5 ==
    \E t \in TaskIds :
        /\ providers = <<>>
        /\ last_switch # PyNone
        /\ calls[t].pc = "returned"
        /\ NonBlankText(calls[t].request)
        /\ calls[t].provider_name = PyStr("gpt")

\* C6: switch_default_provider(name) returns true exactly when name is a
\* registry key, and then the default is that entry; otherwise it returns
\* false and the default is what it was before the call.  The call leaves
\* the registry as it was.
Thm_C6 ==
    /\ [](last_switch # PyNone =>
            /\ last_switch.returned <=> last_switch.provider_name \in KeySet(providers)
            /\ last_switch.returned =>
                   default_provider = DictGet(providers, last_switch.provider_name)
            /\ ~last_switch.returned => default_provider = last_switch.before)
    /\ [][last_switch' # last_switch => providers' = providers]_vars

\* A switch returned true and changed the default.
Wit_C6 ==
    /\ last_switch # PyNone
    /\ last_switch.returned
    /\ last_switch.before # default_provider

\* C7: in every returned envelope 'response' is present exactly when
\* success is true, 'error' exactly when success is false, 'request' is
\* present and is the request passed in, and when a provider was selected
\* 'provider' is present and is the name of the provider invoked.
Thm_C7 ==
    \A t \in TaskIds :
        LET c == calls[t]
            r == c.result
        IN
        c.pc = "returned" =>
            /\ "success" \in DOMAIN r
            /\ "response" \in DOMAIN r <=> r.success
            /\ "error" \in DOMAIN r <=> ~r.success
            /\ "request" \in DOMAIN r
            /\ r.request = c.request
            /\ c.provider # PyNone =>
                   /\ "provider" \in DOMAIN r
                   /\ c.invoked = <<c.provider>>
                   /\ r.provider = get_provider_name(c.invoked[1])

\* A failure envelope was returned by a call that invoked a provider.
Wit_C7 ==
    \E t \in TaskIds :
        /\ calls[t].pc = "returned"
        /\ calls[t].provider # PyNone
        /\ ~calls[t].result.success

\* The call of task t has returned after generate_response ended `kind`.
ReturnedAfter(c, kind) ==
    c.pc = "returned" /\ c.outcome # PyNone /\ c.outcome.kind = kind

\* C8 (as claimed): when generate_response returns text, the call logs one
\* Interaction record (request, response, provider name, metadata with the
\* context and has_history) and returns a success envelope with that text
\* and the selected provider's name.
CE_C8 ==
    \A t \in TaskIds :
        LET c == calls[t] IN
        ReturnedAfter(c, "return") =>
            /\ c.result.success
            /\ c.result.response = c.outcome.text
            /\ c.result.provider = get_provider_name(c.provider)
            /\ \E i \in 1..Len(c.log) :
                   /\ Records(c, "Interaction") = {i}
                   /\ c.log[i].request = c.request
                   /\ c.log[i].response = c.outcome.text
                   /\ c.log[i].provider = get_provider_name(c.provider)
                   /\ c.log[i].metadata =
                          [context |-> c.context, has_history |-> Truthy(c.history)]

\* C9: when generate_response raises ProviderException, the call returns
\* (the exception does not reach the caller) a failure envelope whose
\* 'error' is the exception's text and whose 'provider' is the selected
\* provider's name, and it logs exactly one Error record, tagged
\* "provider_error", carrying that text.
Thm_C9 ==
    \A t \in TaskIds :
        LET c == calls[t] IN
        (Started(c) /\ c.outcome # PyNone /\ c.outcome.kind = "ProviderException") =>
            /\ c.pc = "returned"
            /\ c.result.success = FALSE
            /\ c.result.error = c.outcome.text
            /\ c.result.provider = get_provider_name(c.provider)
            /\ \E i \in 1..Len(c.log) :
                   /\ Records(c, "Error") = {i}
                   /\ c.log[i].error_type = "provider_error"
                   /\ c.log[i].error_message = c.outcome.text

\* A call returned after its provider raised ProviderException.
Wit_C9 ==
    \E t \in TaskIds : ReturnedAfter(calls[t], "ProviderException")

\* The text of the exception other than ProviderException raised inside
\* the try block of the call, when there is one: the one generate_response
\* raised, or the TypeError of logging the interaction.
UnexpectedText(c) ==
    IF c.outcome.kind = "Exception" THEN c.outcome.text ELSE JsonTypeErrorText

UnexpectedRaised(c) ==
    /\ c.outcome # PyNone
    /\ \/ c.outcome.kind = "Exception"
       \/ c.outcome.kind = "return" /\ ~JsonSerializable(c.context)

\* C10: when an exception other than ProviderException is raised inside
\* the try block, the call returns (the exception does not reach the
\* caller) a failure envelope whose 'error' is "Unexpected error: "
\* followed by the exception's text and whose 'provider' is the selected
\* provider's name, and it logs one Error record tagged "unexpected_error".
Thm_C10 ==
    \A t \in TaskIds :
        LET c == calls[t] IN
        (Started(c) /\ UnexpectedRaised(c)) =>
            /\ c.pc = "returned"
            /\ c.result.success = FALSE
            /\ c.result.error = "Unexpected error: " \o UnexpectedText(c)
            /\ c.result.provider = get_provider_name(c.provider)
            /\ \E i \in 1..Len(c.log) :
                   /\ Records(c, "Error") = {i}
                   /\ c.log[i].error_type = "unexpected_error"
                   /\ c.log[i].error_message = UnexpectedText(c)

\* A call returned after its provider raised an exception that is no
\* ProviderException.
Wit_C10 ==
    \E t \in TaskIds : ReturnedAfter(calls[t], "Exception")

\* ------------------------------------------------ construction properties
\* The default provider has not been switched since construction.
NeverSwitched == last_switch = PyNone

InitRecords(kind) == {i \in 1..Len(init_log) : init_log[i].kind = kind}

\* C11: after construction the default provider is the registry entry of
\* the configured default_provider name when that name is a registry key,
\* else the first-inserted entry (gemini before gpt) when the registry is
\* not empty, else none; when it is none, construction has logged an Error
\* record and has still completed.
Thm_C11 ==
    NeverSwitched =>
        /\ DictKeys(providers) \in {<<>>, <<"gemini">>, <<"gpt">>, <<"gemini", "gpt">>}
        /\ config.default_provider \in KeySet(providers) =>
               /\ default_provider # PyNone
               /\ get_provider_name(default_provider) = config.default_provider
               /\ default_provider = DictGet(providers, config.default_provider)
        /\ (config.default_provider \notin KeySet(providers) /\ providers # <<>>) =>
               default_provider = providers[1].value
        /\ providers = <<>> =>
               /\ default_provider = PyNone
               /\ \E i \in InitRecords("Error") :
                      init_log[i].error_type = "initialization_error"

\* Both backends are registered, the configured default names neither, and
\* the default is the first-inserted entry.
Wit_C11 ==
    /\ NeverSwitched
    /\ Len(providers) = 2
    /\ config.default_provider \notin KeySet(providers)
    /\ default_provider = providers[1].value

\* The backend of section b: its section exists with a credential, and its
\* adapter constructs (a model is set and the client library initializes).
SectionUsable(b) ==
    /\ config[b] # PyNone
    /\ config[b].api_key # ""
    /\ config[b].model # ""
    /\ config.sdk[b]

\* The backend of section b fails to initialize: its section is missing,
\* or it has a credential and its adapter does not construct.
SectionFails(b) ==
    \/ config[b] = PyNone
    \/ config[b].api_key # "" /\ (config[b].model = "" \/ ~config.sdk[b])

FailureCount ==
    Cardinality({b \in {"gemini", "openai"} : SectionFails(b)})

\* C12: construction always completes, and each backend is in the registry
\* exactly when its own section exists with a non-empty credential and its
\* adapter constructed, whatever happened to the other backend; every
\* backend failure is logged as one warning.
Thm_C12 ==
    /\ "gemini" \in KeySet(providers) <=> SectionUsable("gemini")
    /\ "gpt" \in KeySet(providers) <=> SectionUsable("openai")
    /\ Cardinality(InitRecords("warning")) =
           FailureCount
           + (IF config.default_provider \in KeySet(providers) THEN 0 ELSE 1)

\* The gemini backend failed to initialize and the gpt backend is registered.
Wit_C12 ==
    /\ SectionFails("gemini")
    /\ KeySet(providers) = {"gpt"}

\* ------------------------------------------------ configuration store
\* Some segment of the key is absent: the walk reaches a mapping that does
\* not hold the next segment.
RECURSIVE HasAbsentSegment(_, _)
HasAbsentSegment(value, keys) ==
    /\ keys # <<>>
    /\ value.type = "dict"
    /\ \/ Head(keys) \notin KeySet(value.items)
       \/ HasAbsentSegment(DictGet(value.items, Head(keys)), Tail(keys))

\* C13 (as claimed): from every state of the store, set(k, v) succeeds and
\* a following get(k, d) returns v for every default d; and get(k, d) for a
\* key with an absent segment returns d.
CE_C13 ==
    config_op # PyNone =>
        /\ config_op.op = "set" =>
               /\ ~config_op.raised
               /\ \A d \in ConfigDefaults :
                      config_get(store, config_op.keys, d) = config_op.value
        /\ (config_op.op = "get" /\ HasAbsentSegment(store, config_op.keys)) =>
               config_op.result = config_op.default

\* The instances held by the registry.
Registered == {providers[i].value : i \in 1..Len(providers)}

\* C14: constructing any provider (plain AIProvider subclass, GeminiProvider,
\* GPTProvider) with an empty credential or an empty model identifier fails
\* with ValueError, validation being the only step that ran (the client was
\* not initialized); and no instance in the registry has an empty credential
\* or an empty model.
Thm_C14 ==
    /\ (built # PyNone /\ (built.api_key = "" \/ built.model = ""))
          => /\ built.result.raised
             /\ built.result.exception = "ValueError"
             /\ built.result.steps = <<"validate">>
    /\ \A p \in Registered : p.api_key # "" /\ p.model # ""

\* A GeminiProvider construction with a credential and an empty model that
\* failed, beside a processor whose registry holds an instance.
Wit_C14 ==
    /\ built # PyNone
    /\ built.class = "GeminiProvider"
    /\ built.api_key # ""
    /\ built.model = ""
    /\ built.sdk_ok
    /\ built.result.raised
    /\ Registered # {}

\* sub occurs in s as the contiguous block starting after position at.
Occurs(sub, s, at) ==
    /\ at + Len(sub) <= Len(s)
    /\ \A i \in 1..Len(sub) : s[at + i] = sub[i]

\* The context lines and history entries an adapter call was given.
GivenContextLines ==
    IF gen.context.type = "dict" THEN ContextLines(gen.context) ELSE <<>>
GivenHistory ==
    IF gen.history.type = "list" THEN gen.history.items ELSE <<>>

\* C15: prompt assembly preserves input ordering.  Gemini text: the context
\* 'key: value' lines, in order, precede the history 'role: content' lines,
\* in input order, which precede the final line holding the current prompt.
\* GPT message list: the first message has role system and contains the
\* context lines, then exactly the history messages in input order, then
\* the user message holding the prompt; length = history length + 2.
Thm_C15 ==
    (gen # PyNone /\ gen.outcome.assembled) =>
        LET sent == gen.outcome.sent
            n == Len(sent)
            hist == GivenHistory
        IN IF gen.class = "GeminiProvider"
           THEN /\ n >= 1
                /\ sent[n] = "User: " \o gen.prompt
                /\ \E a, b \in 0..n :
                      /\ Occurs(GivenContextLines, sent, a)
                      /\ Occurs(HistoryLines(hist), sent, b)
                      /\ a + Len(GivenContextLines) <= b
                      /\ b + Len(hist) < n
           ELSE /\ n = Len(hist) + 2
                /\ sent[1].role = "system"
                /\ \E a \in 0..Len(sent[1].content) :
                      Occurs(GivenContextLines, sent[1].content, a)
                /\ \A i \in 1..Len(hist) :
                      sent[i + 1] = [role |-> MsgRole(hist[i]),
                                     content |-> <<MsgContent(hist[i])>>]
                /\ sent[n] = [role |-> "user", content |-> <<gen.prompt>>]

\* A Gemini call given two context entries and two different history
\* entries, whose text was assembled.
Wit_C15 ==
    /\ gen # PyNone
    /\ gen.class = "GeminiProvider"
    /\ gen.outcome.assembled
    /\ Len(GivenContextLines) = 2
    /\ Len(GivenHistory) = 2
    /\ GivenHistory[1] # GivenHistory[2]

\* C16: generate_response of either adapter returns the backend's text or
\* fails with a ProviderException carrying the failure reason; no other
\* exception type leaves the adapter, whether assembly or the backend call
\* failed.
Thm_C16 ==
    gen # PyNone =>
        /\ gen.outcome.kind \in {"return", "ProviderException"}
        /\ gen.outcome.kind = "return"
              => /\ gen.outcome.called
                 /\ gen.backend.kind = "return"
                 /\ gen.outcome.text = gen.backend.text
        /\ (gen.outcome.called /\ gen.backend.kind = "raise")
              => /\ gen.outcome.kind = "ProviderException"
                 /\ gen.outcome.text \in
                       {"Gemini generation failed: " \o gen.backend.text,
                        "GPT generation failed: " \o gen.backend.text}
        /\ ~gen.outcome.called => gen.outcome.kind = "ProviderException"

\* A GPT call whose backend call was issued and raised.
Wit_C16 ==
    /\ gen # PyNone
    /\ gen.class = "GPTProvider"
    /\ gen.outcome.called
    /\ gen.backend.kind = "raise"
    /\ gen.outcome.kind = "ProviderException"

\* C20 as stated: constructing an adapter only validates the configuration
\* and does not create the client.
CE_C20 ==
    (built # PyNone /\ built.class \in AdapterClasses /\ ~built.result.raised)
        => /\ built.result.steps = <<"validate">>
           /\ ~built.result.value.client

\* C20, amended: constructing an adapter validates the configuration and
\* then, in the same constructor, creates the client; a constructed adapter
\* (on its own or in the registry) holds its client, a failing client
\* creation fails the construction with ProviderException, and
\* generate_response finds the client present before it does anything.
Thm_C20 ==
    /\ (built # PyNone /\ built.class \in AdapterClasses)
          => /\ built.result.steps[1] = "validate"
             /\ ~built.result.raised
                   => /\ built.result.steps = <<"validate", "initialize_client">>
                      /\ built.result.value.client
             /\ (built.api_key # "" /\ built.model # "" /\ ~built.sdk_ok)
                   => /\ built.result.raised
                      /\ built.result.exception = "ProviderException"
                      /\ built.result.steps = <<"validate", "initialize_client">>
    /\ \A p \in Registered : p.client
    /\ gen # PyNone => gen.client_before

\* A constructed GPT adapter in use.
Wit_C20 ==
    /\ built # PyNone
    /\ built.class = "GPTProvider"
    /\ ~built.result.raised
    /\ gen # PyNone
    /\ gen.outcome.kind = "return"

\* C17: a process_request call that passed validation and resolved a
\* provider has invoked generate_response exactly once, on that provider (a
\* call that resolved none has invoked nothing); when the invocation
\* failed the call is over, with a failure envelope naming that provider:
\* nothing is awaited again and no other registered provider is tried.
Thm_C17 ==
    \A t \in TaskIds :
        LET c == calls[t] IN
        /\ (c.pc # "idle" /\ ValidRequest(c.request) /\ c.provider # PyNone)
              => c.invoked = <<c.provider>>
        /\ c.provider = PyNone => c.invoked = <<>>
        /\ (c.outcome # PyNone /\ c.outcome.kind # "return")
              => /\ c.pc = "returned"
                 /\ c.invoked = <<c.provider>>
                 /\ c.result.success = FALSE
                 /\ c.result.provider = get_provider_name(c.provider)

\* A call whose one invocation failed with ProviderException while the
\* registry holds another provider.
Wit_C17 ==
    \E t \in TaskIds :
        /\ calls[t].pc = "returned"
        /\ calls[t].outcome # PyNone
        /\ calls[t].outcome.kind = "ProviderException"
        /\ Len(calls[t].invoked) = 1
        /\ Len(providers) = 2

\* The provider name carried by a call's latest log record.
LastRecordProvider(c) ==
    LET r == c.log[Len(c.log)] IN
    IF r.kind = "Interaction" THEN r.provider ELSE r.details.provider

\* C18: under any interleaving of process_request calls of two tasks and
\* switch_default_provider calls, a call uses the provider selected when it
\* started: while a call is suspended in generate_response no step (a
\* switch, the other call) changes the provider it selected and invoked;
\* when it completes, its envelope and its log record name that provider,
\* its response is the text its own invocation returned, and the other
\* call's state is untouched.
Thm_C18 ==
    [][\A t \in TaskIds :
         /\ (calls[t].pc = "idle" /\ calls'[t].pc = "awaiting")
               => calls'[t].provider =
                     select_provider(providers, default_provider,
                                     calls'[t].provider_name).provider
         /\ calls[t].pc = "awaiting"
               => /\ calls'[t].provider = calls[t].provider
                  /\ calls'[t].invoked = <<calls[t].provider>>
         /\ (calls[t].pc = "awaiting" /\ calls'[t].pc = "returned")
               => /\ calls'[t].result.provider = get_provider_name(calls[t].provider)
                  /\ LastRecordProvider(calls'[t]) = get_provider_name(calls[t].provider)
                  /\ calls'[t].result.success
                        => calls'[t].result.response = calls'[t].outcome.text
                  /\ ~calls'[t].result.success
                        => calls'[t].result.error \in
                              {calls'[t].outcome.text,
                               "Unexpected error: " \o calls'[t].outcome.text}
         /\ calls'[t] # calls[t]
               => /\ \A u \in TaskIds \ {t} : calls'[u] = calls[u]
                  /\ default_provider' = default_provider
      ]_vars

\* Both tasks suspended in generate_response on the provider that was the
\* default when they started, after a switch moved the default elsewhere.
Wit_C18 ==
    /\ \A t \in TaskIds :
          /\ calls[t].pc = "awaiting"
          /\ calls[t].provider_name = PyNone
          /\ calls[t].provider # default_provider
    /\ last_switch # PyNone
    /\ last_switch.returned
    /\ last_switch.before = calls["t1"].provider

\* C19: the registry is the one built at construction, whatever calls
\* (process_request, switch_default_provider, get_available_providers,
\* successful or failing) were made, and every get_available_providers
\* result is the list of its names in registration order.
Thm_C19 ==
    LET registry == Construct(config, config.sdk).providers IN
    /\ providers = registry
    /\ listing # PyNone => listing.names = DictKeys(registry)

\* A listing of two names taken after a failed switch and a failed call.
Wit_C19 ==
    /\ listing # PyNone
    /\ Len(listing.names) = 2
    /\ last_switch # PyNone
    /\ ~last_switch.returned
    /\ \E t \in TaskIds :
          /\ calls[t].pc = "returned"
          /\ ~calls[t].result.success

\* The provider named in the most recent successful switch, or the
\* construction-time default when no switch has succeeded.
ExpectedDefault ==
    IF last_switch # PyNone /\ last_switch.last_ok # PyNone
    THEN DictGet(providers, last_switch.last_ok.val)
    ELSE Construct(config, config.sdk).default_provider

\* C21: last successful switch wins.  After any sequence of switches and
\* requests the default is the provider named in the most recent successful
\* switch_default_provider call, or the construction-time default if none
\* succeeded; a valid process_request with no provider_name, or with one
\* that is no registry key, invokes that provider (nothing when there is
\* none); and no step of process_request changes the default.
Thm_C21 ==
    /\ [](default_provider = ExpectedDefault)
    /\ [][\A t \in TaskIds :
            /\ (/\ calls[t].pc = "idle"
                /\ calls'[t].pc # "idle"
                /\ ValidRequest(calls'[t].request)
                /\ \/ ~Truthy(calls'[t].provider_name)
                   \/ calls'[t].provider_name.val \notin KeySet(providers))
                  => calls'[t].invoked =
                        IF ExpectedDefault = PyNone THEN <<>>
                        ELSE <<ExpectedDefault>>
            /\ calls'[t] # calls[t] => default_provider' = default_provider
         ]_vars

\* A call naming an unknown provider that invoked the provider of an
\* earlier successful switch, the latest switch having failed and the
\* construction-time default being another provider.
Wit_C21 ==
    /\ last_switch # PyNone
    /\ ~last_switch.returned
    /\ last_switch.last_ok # PyNone
    /\ calls["t1"].pc = "awaiting"
    /\ calls["t1"].provider_name = PyStr("openai")
    /\ calls["t1"].invoked = <<DictGet(providers, last_switch.last_ok.val)>>
    /\ calls["t1"].provider # Construct(config, config.sdk).default_provider

\* C22: in every state after construction, whatever process_request and
\* switch_default_provider calls were made, the default provider is None or
\* an instance held in the registry, and it is None exactly when the
\* registry is empty.
Thm_C22 ==
    /\ default_provider = PyNone \/ default_provider \in Registered
    /\ default_provider = PyNone <=> providers = <<>>

\* A processor with two providers whose default was moved by a successful
\* switch and then kept through a failed switch and a finished request.
Wit_C22 ==
    /\ Len(providers) = 2
    /\ last_switch # PyNone
    /\ ~last_switch.returned
    /\ last_switch.last_ok # PyNone
    /\ default_provider # Construct(config, config.sdk).default_provider
    /\ default_provider \in Registered
    /\ calls["t1"].pc = "returned"

\* The adapter class that _initialize_providers builds from section b.
BackendClass(b) == IF b = "gemini" THEN "GeminiProvider" ELSE "GPTProvider"

\* C25 (as claimed): for each section ("gemini", "openai") with a valid
\* credential whose backend initialized, a default_provider setting equal
\* to the section's name makes that backend the default after construction,
\* and a provider_name equal to the section's name selects that backend.
CE_C25 ==
    \A b \in {"gemini", "openai"} :
        SectionUsable(b) =>
            /\ (config.default_provider = b /\ NeverSwitched)
                  => /\ default_provider # PyNone
                     /\ default_provider.class = BackendClass(b)
            /\ \A t \in TaskIds :
                  (/\ Started(calls[t])
                   /\ ValidRequest(calls[t].request)
                   /\ calls[t].provider_name = PyStr(b))
                      => /\ calls[t].provider # PyNone
                         /\ calls[t].provider.class = BackendClass(b)

\* ------------------------------------------------------- logging properties
\* The structured records of a call, and the entries they wrote to a file.
StructuredRecords(c) ==
    {i \in 1..Len(c.log) : c.log[i].kind \in {"Interaction", "Error"}}

FileEntries(c) ==
    {j \in 1..Len(c.written) :
        /\ c.written[j].target # "stderr"
        /\ c.written[j].record.kind \in {"Interaction", "Error"}}

\* The tag of the Error record of a call that returned a failure.
ExpectedErrorType(c) ==
    IF c.provider = PyNone THEN "provider_error"
    ELSE IF c.outcome.kind = "ProviderException" THEN "provider_error"
    ELSE "unexpected_error"

\* C23 (as claimed): every call that passed validation and returned wrote
\* exactly one structured record to the sink: an Interaction record if and
\* only if the envelope has success = true, otherwise one Error record
\* with its tag.
CE_C23 ==
    \A t \in TaskIds :
        LET c == calls[t] IN
        c.pc = "returned" =>
            \E j \in 1..Len(c.written) :
                /\ FileEntries(c) = {j}
                /\ c.written[j].record.kind = "Interaction" <=> c.result.success
                /\ c.written[j].record.kind = "Error"
                      => c.written[j].record.error_type = ExpectedErrorType(c)

\* C23, amended: every call that passed validation has, when it returns,
\* handed exactly one structured record to its logger (none before): an
\* Interaction record at level INFO if and only if the envelope has
\* success = true, otherwise one Error record at level ERROR tagged
\* provider_error (no provider, or the provider failed) or unexpected_error;
\* and the step that returns writes that record to the log file once if
\* the level of the process-wide logger admits it, and not at all if not.
Thm_C23 ==
    /\ [](\A t \in TaskIds :
            LET c == calls[t] IN
            /\ c.pc # "returned" => StructuredRecords(c) = {}
            /\ c.pc = "returned" =>
                  \E i \in 1..Len(c.log) :
                      /\ StructuredRecords(c) = {i}
                      /\ c.log[i].kind = "Interaction" <=> c.result.success
                      /\ c.log[i].kind = "Interaction" => c.log[i].level = "INFO"
                      /\ c.log[i].kind = "Error"
                            => /\ c.log[i].level = "ERROR"
                               /\ c.log[i].error_type = ExpectedErrorType(c))
    /\ [][\A t \in TaskIds :
            (calls[t].pc # "returned" /\ calls'[t].pc = "returned") =>
                LET c == calls'[t]
                    r == c.log[CHOOSE i \in StructuredRecords(c) : TRUE]
                IN IF Admits(aura_logger.level, r.level)
                   THEN \E j \in 1..Len(c.written) :
                            /\ FileEntries(c) = {j}
                            /\ c.written[j] =
                                  [target |-> aura_logger.handlers[1].target,
                                   record |-> r]
                   ELSE FileEntries(c) = {}
         ]_vars

\* A call that returned success = true and handed over its Interaction
\* record while the logger's level was ERROR: nothing reached the file.
Wit_C23 ==
    \E t \in TaskIds :
        /\ calls[t].pc = "returned"
        /\ calls[t].result.success
        /\ Cardinality(StructuredRecords(calls[t])) = 1
        /\ FileEntries(calls[t]) = {}

\* C24 (as claimed): the records a processor's call emits are written to
\* that processor's own log path: nothing it emits is written to another
\* file, and every record its own log level admits is in its own file.
CE_C24 ==
    \A t \in TaskIds :
        loggers[t] # PyNone =>
            LET c == calls[t] IN
            /\ \A j \in 1..Len(c.written) :
                  c.written[j].target \in {loggers[t].log_path, "stderr"}
            /\ \A i \in 1..Len(c.log) :
                  Admits(loggers[t].log_level, c.log[i].level) =>
                      \E j \in 1..Len(c.written) :
                          c.written[j] = [target |-> loggers[t].log_path,
                                          record |-> c.log[i]]

====
